---------------------------- MODULE Spec2Model ----------------------------
(***************************************************************************)
(* The batch builder of distri (cmd/distri/batch.go): batch() reads one    *)
(* build.textproto per directory of pkgs/, builds the dependency graph,    *)
(* breaks its cycles and hands it to scheduler.run, which builds the       *)
(* packages with 8 worker goroutines and one coordinator goroutine.        *)
(***************************************************************************)
EXTENDS Naturals, Integers, Sequences, FiniteSets, Bags, TLC

VARIABLES
  pkgs,       \* the directories of pkgs/ as ioutil.ReadDir lists them (sorted)
  failing,    \* the package names for which the build action answers false
  pc,         \* where batch() / scheduler.run() stands
  nodes,      \* g.Nodes(): the ids of the nodes of the graph
  name,       \* node.name of every node
  byName,     \* the byName map: name -> node
  edges,      \* the edges of g: <<from, to>>, "from depends on to"
  built,      \* s.built: map[string]bool
  work,       \* the buffered channel work
  closed,     \* close(work) has run
  todo,       \* the nodes the initial enqueue loop has not visited yet
  building,   \* bag of names: the workers between line 186 and the end of
              \* line 190, each building a package or sending its result
  exited,     \* the number of workers that have returned
  coord,      \* the coordinator goroutine of run(): "none", "loop", "exited"
  dispatched, \* history, bag of nodes: every send of a node's name on work
  reported,   \* history: the names whose buildResult the coordinator received
  edges0,     \* history: the edges as the builder set them, before line 135
  summary,    \* the counts of the final log line, <<>> before it
  err         \* the first error a worker returned to the errgroup, or "nil"

\* distri install (install, installTransitively1, install1), for one package
\* that several goroutines of an invocation call install1 for
VARIABLES
  invocation, \* the number of distri install invocations started so far
  crashed,    \* the process of the current invocation was killed
  ipc,        \* where each goroutine stands in install1
  roimg,      \* the files of the package in root/roimg
  tmpDir,     \* root/roimg/tmp/.<pkg><pid>: whether it exists, and its files
  moved       \* history: the moves of the image into roimg by this invocation

ivars == <<invocation, crashed, ipc, roimg, tmpDir, moved>>

vars == <<pkgs, failing, pc, nodes, name, byName, edges, built, work, closed,
          todo, building, exited, coord, dispatched, reported, edges0, summary,
          err, ivars>>

--------------------------------------------------------------------------
(* Bounds of the inputs. *)

\* at most this many dependency entries over all build.textproto files
MaxDeps == 4

\* at most this many package names whose build fails (the build action of
\* line 190 answers false for one name)
MaxFailing == 1

\* the worker goroutines of scheduler.run
NumWorkers == 8

\* at most this many goroutines of one invocation call install1 for the
\* same package
MaxCallers == 2

\* at most this many invocations of distri install, one after the other
MaxInvocations == 2

--------------------------------------------------------------------------
(* The input: the build.textproto files below pkgs/. *)

\* The package directories that may exist, each with the version its
\* build.textproto declares.  "a" exists with either version.
Repo ==
  { [pkg |-> "a",   version |-> "1"],
    [pkg |-> "a",   version |-> "1-1"],
    [pkg |-> "a-1", version |-> "1"],
    [pkg |-> "b",   version |-> "1"],
    [pkg |-> "c",   version |-> "1"] }

\* ioutil.ReadDir returns the entries sorted by filename
DirOrder == <<"a", "a-1", "b", "c">>

DirRank(p) == CHOOSE i \in 1..Len(DirOrder) : DirOrder[i] = p

\* n.name: pkg + "-" + buildProto.GetVersion()
FullName(pkg, version) == pkg \o "-" \o version

\* the names a dependency entry may hold; a name no listed directory yields
\* is an entry without a node
DepNames == { FullName("a", "1-1"), FullName("b", "1"), FullName("c", "1") }

\* the directory listings: no two entries of a directory share a file name
Listings ==
  { S \in SUBSET Repo : \A r, q \in S : r.pkg = q.pkg => r = q }

\* the entries of a listing in ReadDir's order
Sorted(S) ==
  [ i \in 1..Cardinality(S) |->
      CHOOSE r \in S :
        Cardinality({ q \in S : DirRank(q.pkg) < DirRank(r.pkg) }) = i - 1 ]

\* deps of lines 106-108: GetDep, builderdeps and GetRuntimeDep appended into
\* one list; the loop of line 111 reads it entry by entry, so its set decides
DepChoices(S) ==
  { P \in SUBSET ({ r.pkg : r \in S } \X DepNames) : Cardinality(P) <= MaxDeps }

Descriptors(S, P) ==
  [ i \in 1..Cardinality(S) |->
      [ pkg     |-> Sorted(S)[i].pkg,
        version |-> Sorted(S)[i].version,
        deps    |-> { e[2] : e \in { x \in P : x[1] = Sorted(S)[i].pkg } } ] ]

Inputs == UNION { { Descriptors(S, P) : P \in DepChoices(S) } : S \in Listings }

--------------------------------------------------------------------------
(* batch(), lines 69-117: the graph builder. *)

\* node ids are the indexes of the listing, from 0 (line 84)
Ids == 0..(Len(pkgs) - 1)

\* a node named by its directory alone
NameOfPkg(i) == pkgs[i + 1].pkg

NameOf(i) == FullName(pkgs[i + 1].pkg, pkgs[i + 1].version)

\* byName[n.name] = n in listing order: a later entry with the same name
\* replaces the earlier one (line 85)
ByNameBuilt ==
  [ nm \in { NameOf(i) : i \in Ids } |->
      CHOOSE i \in Ids : NameOf(i) = nm /\ \A j \in Ids : NameOf(j) = nm => j <= i ]

\* the dependency entries with the check of line 112 left out
DepsOfAll(i) == pkgs[i + 1].deps

\* a dependency entry other than the package's own name (line 112)
DepsOf(i) == { dep \in pkgs[i + 1].deps : dep # NameOf(i) }

\* byName[dep] of line 115 is nil: SetEdge calls ID() on a nil *node
NilDep == \E i \in Ids : \E dep \in DepsOf(i) : dep \notin DOMAIN ByNameBuilt

\* g.SetEdge(g.NewEdge(n, byName[dep])) with n := byName[pkg+"-"+version]
EdgesBuilt ==
  { <<ByNameBuilt[NameOf(i)], ByNameBuilt[e]>> :
      <<i, e>> \in { x \in Ids \X DepNames : x[2] \in DepsOf(x[1]) } }

--------------------------------------------------------------------------
(* The graph library (gonum simple.DirectedGraph, topo.Sort). *)

\* g.From(id): the nodes id has an edge to, its dependencies
From(E, n) == { e[2] : e \in { x \in E : x[1] = n } }

\* g.To(id): the nodes with an edge to id, its dependents
To(E, n) == { e[1] : e \in { x \in E : x[2] = n } }

RECURSIVE ReachFrom(_, _, _)
ReachFrom(E, seen, frontier) ==
  IF frontier = {} THEN seen
  ELSE LET next == UNION { From(E, n) : n \in frontier }
       IN  ReachFrom(E, seen \cup next, next \ seen)

\* the nodes reached from n over one edge or more
Reach(E, n) == ReachFrom(E, {}, {n})

\* topo.TarjanSCC: the strongly connected components
TarjanSCC(N, E) ==
  { {n} \cup { m \in Reach(E, n) : n \in Reach(E, m) } : n \in N }

\* a Sort that reports only the components of three nodes or more
UnorderableBig(N, E) == { c \in TarjanSCC(N, E) : Cardinality(c) > 2 }

\* a Sort that reports every component, those of one node too
UnorderableAll(N, E) == TarjanSCC(N, E)

\* the error of topo.Sort: the components with other than one node
Unorderable(N, E) == { c \in TarjanSCC(N, E) : Cardinality(c) # 1 }

\* a cycle breaker that removes only the edges inside a component
RemoveInside(N, E) ==
  { e \in E : \A c \in Unorderable(N, E) : ~(e[1] \in c /\ e[2] \in c) }

\* a cycle breaker that removes one edge inside each component
RemoveOneEdge(N, E) ==
  E \ { CHOOSE e \in E : e[1] \in c /\ e[2] \in c : c \in Unorderable(N, E) }

\* a cycle breaker that removes every edge that touches a component
RemoveTouching(N, E) ==
  { e \in E : \A c \in Unorderable(N, E) : e[1] \notin c /\ e[2] \notin c }

\* lines 141-150: RemoveEdge for every g.From(n) of every n of every component
RemoveFrom(N, E) == { e \in E : \A c \in Unorderable(N, E) : e[1] \notin c }

\* the cycle-broken packages batch() has to hand when lines 135-154 are
\* over: the loops of lines 141-150 remove edges and record no node, and
\* the scheduler of lines 156-160 is given g, byName and built alone
CycleBroken == {}

--------------------------------------------------------------------------
(* batch() *)

\* the goroutines that call install1 for the package
Callers == 1..MaxCallers

\* the files of a package: pkg + ".squashfs" and pkg + ".meta.textproto"
Files == {"squashfs", "meta"}

\* no directory root/roimg/tmp/.<pkg><pid>
NoDir == [exists |-> FALSE, files |-> {}]

\* distri install has not been run: roimg holds nothing of the package
InstallIdle ==
  /\ invocation = 0
  /\ crashed = FALSE
  /\ ipc = [c \in Callers |-> "none"]
  /\ roimg = {}
  /\ tmpDir = NoDir
  /\ moved = 0

Init ==
  /\ pkgs \in Inputs
  /\ failing \in { F \in SUBSET { FullName(pkgs[i].pkg, pkgs[i].version) : i \in 1..Len(pkgs) } :
                     Cardinality(F) <= MaxFailing }
  /\ pc = "build"
  /\ nodes = {}
  /\ name = << >>
  /\ byName = << >>
  /\ edges = {}
  /\ built = << >>
  /\ work = << >>
  /\ closed = FALSE
  /\ todo = {}
  /\ building = EmptyBag
  /\ exited = 0
  /\ coord = "none"
  /\ dispatched = EmptyBag
  /\ reported = {}
  /\ edges0 = {}
  /\ summary = << >>
  /\ err = "nil"
  /\ InstallIdle

\* lines 69-117.  An entry naming no node makes line 115 dereference nil.
BuildGraph ==
  /\ pc = "build"
  /\ nodes' = Ids
  /\ name' = [ i \in Ids |-> NameOf(i) ]
  /\ byName' = ByNameBuilt
  /\ IF NilDep
       THEN pc' = "panic" /\ edges' = {}
       ELSE pc' = "break" /\ edges' = EdgesBuilt
  /\ edges0' = edges'
  /\ UNCHANGED <<pkgs, failing, built, work, closed, todo, building,
                 exited, coord, dispatched, reported, summary,
                 err>>
  /\ UNCHANGED ivars

\* lines 135-154
BreakCycles ==
  /\ pc = "break"
  /\ IF Unorderable(nodes, edges) = {}
       THEN pc' = "run" /\ edges' = edges
       ELSE /\ edges' = RemoveFrom(nodes, edges)
            /\ pc' = IF Unorderable(nodes, edges') = {} THEN "run" ELSE "error"
  /\ UNCHANGED <<pkgs, failing, nodes, name, byName, built, work, closed, todo,
                 building, exited, coord, dispatched, reported, edges0, summary,
                 err>>
  /\ UNCHANGED ivars

--------------------------------------------------------------------------
(* scheduler.  The 8 workers run the same closure and carry no identity,  *)
(* so their positions are kept as counts: Idle workers wait in range      *)
(* work, the bag building holds the name each busy worker took, exited    *)
(* counts the workers that returned.  done has no buffer: a worker's send *)
(* and the coordinator's receive are one step, Tick.  No worker returns   *)
(* an error, so ctx is cancelled only when eg.Wait returns, after the     *)
(* coordinator has left its loop: the case of line 222 is never taken.    *)

\* s.built[k] = v
Put(b, k, v) == [ x \in DOMAIN b \cup {k} |-> IF x = k THEN v ELSE b[x] ]

\* s.built[k]: false for a name the map does not hold
Get(b, k) == k \in DOMAIN b /\ b[k]

\* a node count that is one too large
numNodesPlusOne == Cardinality(nodes) + 1

\* a node count that is one short
numNodesLessOne == Cardinality(nodes) - 1

\* numNodes := s.g.Nodes().Len()
numNodes == Cardinality(nodes)

\* line 181: work := make(chan string, numNodes)
workCap == numNodes

\* a canBuild that returns at the first dependency it finds built
canBuildAny(b, candidate) ==
  \/ From(edges, candidate) = {}
  \/ \E dep \in From(edges, candidate) : Get(b, name[dep])

\* a canBuild that holds for every candidate
canBuildAlways(b, candidate) == TRUE

\* canBuild, lines 256-266
canBuild(b, candidate) ==
  \A dep \in From(edges, candidate) : Get(b, name[dep])

\* markFailed, lines 242-253, on the map st.m; st.fatal once line 248 has run;
\* st.log holds the dependents visited, one entry per log line of line 246
RECURSIVE markFailedEach(_, _)
markFailedEach(st, ds) ==
  IF ds = {} \/ st.fatal THEN st
  ELSE LET d == CHOOSE x \in ds : TRUE
           seen == Append(st.log, d)
           marked ==
             IF Get(st.m, name[d])
               THEN [fatal |-> TRUE, m |-> st.m, log |-> seen]
               ELSE markFailedEach([fatal |-> FALSE,
                                    m     |-> Put(st.m, name[d], FALSE),
                                    log   |-> seen],
                                   To(edges, d))
       IN  markFailedEach(marked, ds \ {d})

markFailed(b, n) ==
  markFailedEach([fatal |-> FALSE, m |-> b, log |-> << >>], To(edges, n))

\* the orders in which an iterator may list the names of the nodes of S
Orders(S) ==
  { [ i \in 1..Cardinality(S) |-> name[f[i]] ] :
      f \in { g \in [1..Cardinality(S) -> S] :
                \A i, j \in 1..Cardinality(S) : g[i] = g[j] => i = j } }

\* the process runs: neither returned nor ended by a panic or log.Fatalf
Running == pc \in {"enqueue", "wait"}

\* the idle workers of a pool with one goroutine more
IdleOfNine == NumWorkers + 1 - BagCardinality(building) - exited

\* the workers blocked in range work
Idle == NumWorkers - BagCardinality(building) - exited

\* lines 156-160 and 180-194: the scheduler, its channels and 8 workers
StartRun ==
  /\ pc = "run"
  /\ pc' = "enqueue"
  /\ built' = << >>
  /\ work' = << >>
  /\ todo' = nodes
  /\ UNCHANGED <<pkgs, failing, nodes, name, byName, edges, closed, building,
                 exited, coord, dispatched, reported, edges0, summary,
                 err>>
  /\ UNCHANGED ivars

\* an initial loop that sends the name of a node whatever its dependencies
EnqueueAny(n) ==
  /\ pc = "enqueue"
  /\ n \in todo
  /\ Len(work) < workCap
  /\ work' = Append(work, name[n])
  /\ dispatched' = dispatched (+) SetToBag({n})
  /\ todo' = todo \ {n}
  /\ UNCHANGED <<pkgs, failing, pc, nodes, name, byName, edges, built, closed,
                 building, exited, coord, reported, edges0, summary, err>>
  /\ UNCHANGED ivars

\* lines 197-202, one node without dependencies; the others are passed over
EnqueueInitial(n) ==
  /\ pc = "enqueue"
  /\ n \in todo
  /\ From(edges, n) = {}
  /\ Len(work) < workCap
  /\ work' = Append(work, name[n])
  /\ dispatched' = dispatched (+) SetToBag({n})
  /\ todo' = todo \ {n}
  /\ UNCHANGED <<pkgs, failing, pc, nodes, name, byName, edges, built, closed,
                 building, exited, coord, reported, edges0, summary,
                 err>>
  /\ UNCHANGED ivars

\* line 203: the loop is over, the coordinator starts; run() goes on to eg.Wait
StartCoordinator ==
  /\ pc = "enqueue"
  /\ \A n \in todo : From(edges, n) # {}
  /\ pc' = "wait"
  /\ coord' = "loop"
  /\ todo' = {}
  /\ UNCHANGED <<pkgs, failing, nodes, name, byName, edges, built, work, closed,
                 building, exited, dispatched, reported, edges0, summary,
                 err>>
  /\ UNCHANGED ivars

\* line 186: a worker receives the next name
WorkerReceive ==
  /\ Running
  /\ Idle > 0
  /\ work # << >>
  /\ building' = building (+) SetToBag({Head(work)})
  /\ work' = Tail(work)
  /\ UNCHANGED <<pkgs, failing, pc, nodes, name, byName, edges, built, closed,
                 todo, exited, coord, dispatched, reported, edges0, summary,
                 err>>
  /\ UNCHANGED ivars

\* lines 186 and 192: work is closed and drained, the worker returns nil
WorkerReturn ==
  /\ Running
  /\ Idle > 0
  /\ work = << >>
  /\ closed
  /\ exited' = exited + 1
  /\ UNCHANGED <<pkgs, failing, pc, nodes, name, byName, edges, built, work,
                 closed, todo, building, coord, dispatched, reported, edges0,
                 summary, err>>
  /\ UNCHANGED ivars

\* line 190: success: pkg != "libx11-1.6.6", the answer of the build action
success(pkg) == pkg \notin failing

\* lines 187-190 and 205-220: the build of pkg is over and its worker sends
\* the result on done, which has no buffer: the send is the coordinator's
\* receive, one scheduler tick.  A send on a full work blocks the tick.
Tick(pkg) ==
  /\ pc = "wait"
  /\ coord = "loop"
  /\ Cardinality(DOMAIN built) < numNodes
  /\ BagIn(pkg, building)
  /\ building' = building (-) SetToBag({pkg})
  /\ reported' = reported \cup {pkg}
  /\ LET n == byName[pkg]
         b == Put(built, pkg, success(pkg))
         ready == { c \in To(edges, n) : canBuild(b, c) }
     IN  IF ~success(pkg)
           THEN /\ built' = markFailed(b, n).m
                /\ pc' = IF markFailed(b, n).fatal THEN "fatal" ELSE pc
                /\ UNCHANGED <<work, dispatched>>
           ELSE /\ built' = b
                /\ pc' = pc
                /\ dispatched' = dispatched (+) SetToBag(ready)
                /\ Len(work) + Cardinality(ready) <= workCap
                /\ work' \in { work \o q : q \in Orders(ready) }
  /\ UNCHANGED <<pkgs, failing, nodes, name, byName, edges, closed, todo,
                 exited, coord, edges0, summary, err>>
  /\ UNCHANGED ivars

\* lines 204-205: len(s.built) has reached numNodes, the deferred close(work)
CoordinatorExit ==
  /\ pc = "wait"
  /\ coord = "loop"
  /\ ~(Cardinality(DOMAIN built) < numNodes)
  /\ coord' = "exited"
  /\ closed' = TRUE
  /\ UNCHANGED <<pkgs, failing, pc, nodes, name, byName, edges, built, work,
                 todo, building, exited, dispatched, reported, edges0, summary,
                 err>>
  /\ UNCHANGED ivars

\* lines 230-235: succeeded++ for every result of s.built that is true
CountFailed(b) == Cardinality({ k \in DOMAIN b : ~b[k] })

Succeeded(b) == Cardinality({ k \in DOMAIN b : b[k] })

\* line 237: succeeded, len(s.built)-succeeded, len(s.built)
Summary(b) ==
  [ succeeded |-> Succeeded(b),
    failed    |-> Cardinality(DOMAIN b) - Succeeded(b),
    total     |-> Cardinality(DOMAIN b) ]

\* a run() that reads s.built for the summary without eg.Wait
ReturnEarly ==
  /\ pc = "wait"
  /\ pc' = "returned"
  /\ summary' = Summary(built)
  /\ UNCHANGED <<pkgs, failing, nodes, name, byName, edges, built, work, closed,
                 todo, building, exited, coord, dispatched, reported, edges0,
                 err>>
  /\ UNCHANGED ivars

\* lines 227-239: eg.Wait returns once every worker has, then the summary
Return ==
  /\ pc = "wait"
  /\ exited = NumWorkers
  /\ err = "nil"
  /\ pc' = "returned"
  /\ summary' = Summary(built)
  /\ UNCHANGED <<pkgs, failing, nodes, name, byName, edges, built, work, closed,
                 todo, building, exited, coord, dispatched, reported, edges0,
                 err>>
  /\ UNCHANGED ivars

Next ==
  \/ BuildGraph
  \/ BreakCycles
  \/ StartRun
  \/ \E n \in nodes : EnqueueInitial(n)
  \/ StartCoordinator
  \/ WorkerReceive
  \/ WorkerReturn
  \/ \E pkg \in DOMAIN byName : Tick(pkg)
  \/ CoordinatorExit
  \/ Return

Spec == Init /\ [][Next]_vars

\* the runs on listings whose <pkg>-<version> names are pairwise different
InitUnique ==
  /\ Init
  /\ \A i, j \in 1..Len(pkgs) :
       FullName(pkgs[i].pkg, pkgs[i].version) = FullName(pkgs[j].pkg, pkgs[j].version)
         => i = j

SpecUnique == InitUnique /\ [][Next]_vars

--------------------------------------------------------------------------
(* The runs on two listings larger than those of Inputs.                  *)

\* more packages than workers: nine packages without dependencies, all of
\* which the initial loop puts on work
PoolListing ==
  [ i \in 1..9 |->
      [ pkg     |-> <<"p1", "p2", "p3", "p4", "p5", "p6", "p7", "p8", "p9">>[i],
        version |-> "1",
        deps    |-> {} ] ]

\* two directories that yield the name a-1-1 and three packages that
\* depend on it
TwinListing ==
  << [pkg |-> "a",   version |-> "1-1", deps |-> {}],
     [pkg |-> "a-1", version |-> "1",   deps |-> {}],
     [pkg |-> "b",   version |-> "1",   deps |-> {"a-1-1"}],
     [pkg |-> "c",   version |-> "1",   deps |-> {"a-1-1"}],
     [pkg |-> "d",   version |-> "1",   deps |-> {"a-1-1"}] >>

InitPool ==
  /\ pkgs \in {PoolListing, TwinListing}
  /\ failing = {}
  /\ pc = "build"
  /\ nodes = {}
  /\ name = << >>
  /\ byName = << >>
  /\ edges = {}
  /\ built = << >>
  /\ work = << >>
  /\ closed = FALSE
  /\ todo = {}
  /\ building = EmptyBag
  /\ exited = 0
  /\ coord = "none"
  /\ dispatched = EmptyBag
  /\ reported = {}
  /\ edges0 = {}
  /\ summary = << >>
  /\ err = "nil"
  /\ InstallIdle

SpecPool == InitPool /\ [][Next]_vars

--------------------------------------------------------------------------
(* The run with a build execution that can break.  The build action of    *)
(* lines 187-190 is a stand-in that cannot: with a Build Executor that is *)
(* unreachable (ExecutorFault) the worker returns the error from its      *)
(* closure.  errgroup keeps the first error and cancels ctx with it; the  *)
(* coordinator's select of lines 206-224 may then take either ready case. *)

\* the worker building pkg returns a non-nil error instead of sending on done
WorkerFault(pkg) ==
  /\ Running
  /\ BagIn(pkg, building)
  /\ building' = building (-) SetToBag({pkg})
  /\ exited' = exited + 1
  /\ err' = IF err = "nil" THEN "fault" ELSE err
  /\ UNCHANGED <<pkgs, failing, pc, nodes, name, byName, edges, built, work,
                 closed, todo, coord, dispatched, reported, edges0, summary>>
  /\ UNCHANGED ivars

\* lines 222-223 and 204: ctx is cancelled, the coordinator returns and the
\* deferred close(work) runs
CoordinatorCancelled ==
  /\ pc = "wait"
  /\ coord = "loop"
  /\ Cardinality(DOMAIN built) < numNodes
  /\ err # "nil"
  /\ coord' = "exited"
  /\ closed' = TRUE
  /\ UNCHANGED <<pkgs, failing, pc, nodes, name, byName, edges, built, work,
                 todo, building, exited, dispatched, reported, edges0, summary,
                 err>>
  /\ UNCHANGED ivars

\* lines 227-229: eg.Wait returns the error once every worker has returned
ReturnError ==
  /\ pc = "wait"
  /\ exited = NumWorkers
  /\ err # "nil"
  /\ pc' = "failed"
  /\ UNCHANGED <<pkgs, failing, nodes, name, byName, edges, built, work, closed,
                 todo, building, exited, coord, dispatched, reported, edges0,
                 summary, err>>
  /\ UNCHANGED ivars

NextFault ==
  \/ Next
  \/ \E pkg \in DOMAIN byName : WorkerFault(pkg)
  \/ CoordinatorCancelled
  \/ ReturnError

SpecFault == InitUnique /\ [][NextFault]_vars

--------------------------------------------------------------------------
(* distri install.  install() clears roimg/tmp and starts one goroutine   *)
(* per package argument; installTransitively1 starts one goroutine per    *)
(* package and runtime dependency, each calling install1.  The model      *)
(* follows the goroutines whose install1 is called for one and the same   *)
(* package (the package is an argument and a runtime dependency of        *)
(* another argument, or a dependency of two arguments); calls for other   *)
(* packages touch other files.  The process can be killed at any point,   *)
(* and distri install can be run again on what it left behind.            *)

bvars == <<pkgs, failing, pc, nodes, name, byName, edges, built, work, closed,
           todo, building, exited, coord, dispatched, reported, edges0, summary,
           err>>

\* distri batch is not run
BatchIdle ==
  /\ pkgs = << >> /\ failing = {} /\ pc = "build"
  /\ nodes = {} /\ name = << >> /\ byName = << >> /\ edges = {}
  /\ built = << >> /\ work = << >> /\ closed = FALSE /\ todo = {}
  /\ building = EmptyBag /\ exited = 0 /\ coord = "none"
  /\ dispatched = EmptyBag /\ reported = {} /\ edges0 = {}
  /\ summary = << >> /\ err = "nil"

InitInstall == BatchIdle /\ InstallIdle

\* the goroutines of the current invocation have all returned from install1
Returned == \A c \in Callers : ipc[c] \in {"nil", "err"}

\* install, lines 509-538, and installTransitively1, lines 447-461:
\* RemoveAll and MkdirAll of roimg/tmp, then the goroutines are started
install ==
  /\ invocation < MaxInvocations
  /\ invocation = 0 \/ crashed \/ Returned
  /\ invocation' = invocation + 1
  /\ crashed' = FALSE
  /\ tmpDir' = NoDir
  /\ ipc' = [c \in Callers |-> "stat"]
  /\ moved' = 0
  /\ UNCHANGED roimg
  /\ UNCHANGED bvars

\* the process runs
Alive == invocation > 0 /\ ~crashed

\* lines 191-193: os.Stat of the image in roimg
install1Stat(c) ==
  /\ Alive
  /\ ipc[c] = "stat"
  /\ ipc' = [ipc EXCEPT ![c] = IF "squashfs" \in roimg THEN "nil" ELSE "mkdir"]
  /\ UNCHANGED <<invocation, crashed, roimg, tmpDir, moved>>
  /\ UNCHANGED bvars

\* lines 195-201: os.Mkdir(tmpDir), nil when the directory exists
install1Mkdir(c) ==
  /\ Alive
  /\ ipc[c] = "mkdir"
  /\ IF tmpDir.exists
       THEN ipc' = [ipc EXCEPT ![c] = "nil"] /\ tmpDir' = tmpDir
       ELSE /\ ipc' = [ipc EXCEPT ![c] = "download"]
            /\ tmpDir' = [exists |-> TRUE, files |-> {}]
  /\ UNCHANGED <<invocation, crashed, roimg, moved>>
  /\ UNCHANGED bvars

\* lines 207-224: the image, then the metadata, are created in tmpDir and
\* copied from the repository; an error leaves what was created so far
install1Download(c) ==
  /\ Alive
  /\ ipc[c] = "download"
  /\ \/ /\ tmpDir' = [tmpDir EXCEPT !.files = Files]
        /\ ipc' = [ipc EXCEPT ![c] = "hooks"]
     \/ /\ \E got \in {{}, {"squashfs"}, Files} :
             tmpDir' = [tmpDir EXCEPT !.files = got]
        /\ ipc' = [ipc EXCEPT ![c] = "err"]
  /\ UNCHANGED <<invocation, crashed, roimg, moved>>
  /\ UNCHANGED bvars

\* lines 229-384: /etc is copied and the content hooks run, or one of them
\* returns an error
install1Hooks(c) ==
  /\ Alive
  /\ ipc[c] = "hooks"
  /\ \E next \in {"rename1", "err"} : ipc' = [ipc EXCEPT ![c] = next]
  /\ UNCHANGED <<invocation, crashed, roimg, tmpDir, moved>>
  /\ UNCHANGED bvars

\* a loop that moves the image first
RenameImageFirst == <<"squashfs", "meta">>

\* line 388: first meta, then image
RenameOrder == <<"meta", "squashfs">>

\* lines 388-392, one os.Rename from tmpDir into roimg (it replaces a file
\* that is there already)
install1Rename(c) ==
  /\ Alive
  /\ ipc[c] \in {"rename1", "rename2"}
  /\ LET fn == RenameOrder[IF ipc[c] = "rename1" THEN 1 ELSE 2]
     IN  IF fn \in tmpDir.files
           THEN /\ roimg' = roimg \cup {fn}
                /\ tmpDir' = [tmpDir EXCEPT !.files = @ \ {fn}]
                /\ moved' = IF fn = "squashfs" THEN moved + 1 ELSE moved
                /\ ipc' = [ipc EXCEPT ![c] =
                             IF ipc[c] = "rename1" THEN "rename2" ELSE "remove"]
           ELSE /\ ipc' = [ipc EXCEPT ![c] = "err"]
                /\ UNCHANGED <<roimg, tmpDir, moved>>
  /\ UNCHANGED <<invocation, crashed>>
  /\ UNCHANGED bvars

\* lines 394-398: os.Remove(tmpDir), an error when it is not empty
install1Remove(c) ==
  /\ Alive
  /\ ipc[c] = "remove"
  /\ IF tmpDir.exists /\ tmpDir.files = {}
       THEN tmpDir' = NoDir /\ ipc' = [ipc EXCEPT ![c] = "nil"]
       ELSE tmpDir' = tmpDir /\ ipc' = [ipc EXCEPT ![c] = "err"]
  /\ UNCHANGED <<invocation, crashed, roimg, moved>>
  /\ UNCHANGED bvars

\* the process is killed before its goroutines have all returned
Crash ==
  /\ Alive
  /\ ~Returned
  /\ crashed' = TRUE
  /\ UNCHANGED <<invocation, ipc, roimg, tmpDir, moved>>
  /\ UNCHANGED bvars

NextInstall ==
  \/ install
  \/ \E c \in Callers :
       \/ install1Stat(c)
       \/ install1Mkdir(c)
       \/ install1Download(c)
       \/ install1Hooks(c)
       \/ install1Rename(c)
       \/ install1Remove(c)
  \/ Crash

SpecInstall == InitInstall /\ [][NextInstall]_vars

--------------------------------------------------------------------------
(* Notions the properties share. *)

\* how often the name of node n has been sent on work
Sent(n) == CopiesIn(n, dispatched)

\* the nodes that depend on n, directly or over other nodes
Dependents(n) == { d \in nodes : n \in Reach(edges, d) }

\* the scheduler has been started
Scheduling == pc \in {"enqueue", "wait", "returned", "fatal"}

\* node names are unique (what C13 asks of the builder)
UniqueNames == \A i, j \in Ids : NameOf(i) = NameOf(j) => i = j

--------------------------------------------------------------------------
(* C1: a package name is put on the work queue only in a state in which   *)
(* every package the node has a dependency edge to is recorded in built   *)
(* as succeeded: every step that sends the name of node n on work ends in *)
(* a state where built holds true for each dependency of n.               *)
C1_DispatchAfterDeps ==
  [][ \A n \in nodes :
        Sent(n)' > Sent(n) =>
          \A dep \in From(edges, n) : Get(built', name[dep]) ]_vars

\* a package with two dependencies has been put on the work queue
C1_Witness ==
  \E n \in nodes : Cardinality(From(edges, n)) = 2 /\ Sent(n) = 1

--------------------------------------------------------------------------
(* C2: every package is put on the work queue at most once, so that its   *)
(* build action runs at most once: no node's name is sent on work twice.  *)
C2_AtMostOnce == \A n \in nodes : Sent(n) <= 1

--------------------------------------------------------------------------
(* C3: once the build of package P has reported failure, no package that  *)
(* depends on P, directly or transitively, has been or is put on the work *)
(* queue, and when run returns each of them is recorded as failed.        *)
FailedBuild(p) ==
  /\ p \in nodes
  /\ byName[name[p]] = p
  /\ name[p] \in reported
  /\ ~success(name[p])

C3_CascadeNeverBuilt ==
  Scheduling =>
    \A p \in nodes : FailedBuild(p) =>
      \A d \in Dependents(p) :
        /\ Sent(d) = 0
        /\ pc = "returned" => name[d] \in DOMAIN built /\ ~built[name[d]]

--------------------------------------------------------------------------
(* C4: the run terminates.  A run that always reaches its return is never *)
(* left, before it returns, in a state where neither a worker, nor the    *)
(* coordinator, nor run itself can take a step.                           *)
C4_NeverStuck == Running => ENABLED Next

--------------------------------------------------------------------------
(* C5: when run returns every node has a recorded outcome and the summary *)
(* satisfies succeeded + failed = total = number of nodes, succeeded      *)
(* counting the packages recorded true and failed counting the packages   *)
(* whose own build failed together with those failed by cascade (the      *)
(* packages no result was ever received for).                             *)
C5_SummaryAddsUp ==
  pc = "returned" =>
    /\ \A n \in nodes : name[n] \in DOMAIN built
    /\ summary.total = Cardinality(nodes)
    /\ summary.succeeded + summary.failed = summary.total
    /\ summary.succeeded = Cardinality({ n \in nodes : built[name[n]] })
    /\ summary.failed =
         Cardinality({ n \in nodes : name[n] \in reported /\ ~success(name[n]) })
         + Cardinality({ n \in nodes : name[n] \notin reported })

\* run has returned after a failed build, a cascade failure and a success
C5_Witness ==
  /\ pc = "returned"
  /\ summary.succeeded >= 1
  /\ \E n \in nodes : name[n] \in reported /\ ~success(name[n])
  /\ \E n \in nodes : name[n] \notin reported

--------------------------------------------------------------------------
(* C6: a build failure does not stop unrelated work: a package none of    *)
(* whose transitive dependencies fails is put on the work queue exactly   *)
(* once: never twice, and once by the time no step is left to take.       *)
Unaffected(n) == \A m \in Reach(edges, n) : success(name[m])

RunOver == pc \in {"returned", "fatal"} \/ (pc = "wait" /\ ~ENABLED Next)

C6_UnrelatedBuiltOnce ==
  Scheduling =>
    \A n \in nodes : Unaffected(n) =>
      /\ Sent(n) <= 1
      /\ RunOver => Sent(n) = 1

--------------------------------------------------------------------------
(* C7: if every build succeeds, run goes on until it returns, and then    *)
(* all N packages are recorded as succeeded and the summary reports N     *)
(* succeeded and 0 failed.                                                *)
C7_AllSucceed ==
  failing = {} =>
    /\ Running => ENABLED Next
    /\ pc # "fatal"
    /\ pc = "returned" =>
         /\ \A n \in nodes : Get(built, name[n])
         /\ summary.succeeded = Cardinality(nodes)
         /\ summary.failed = 0

--------------------------------------------------------------------------
(* C8: a build result with success = false never aborts the run: the      *)
(* process is never ended in the middle of a scheduler tick.              *)
C8_FailureNeverAborts == pc # "fatal"

--------------------------------------------------------------------------
(* C9: the graph scheduler.run is started on has no directed cycle,       *)
(* whatever graph the builder produced.                                   *)
OnCycle(E, n) == n \in Reach(E, n)

C9_Acyclic ==
  pc \in {"run", "enqueue", "wait", "returned", "fatal"} =>
    \A n \in nodes : ~OnCycle(edges, n)

\* the scheduler has been started on a graph that was built with a cycle
C9_Witness == pc = "enqueue" /\ \E n \in nodes : OnCycle(edges0, n)

--------------------------------------------------------------------------
(* C10: every node of a cyclic component of the built graph has lost all  *)
(* of its outgoing edges, those to nodes outside the component too, when  *)
(* the scheduler starts, and its name has been put on the work queue by   *)
(* the time the initial loop is over and the coordinator starts.          *)
C10_CycleNodesFree ==
  Scheduling =>
    \A n \in nodes : OnCycle(edges0, n) =>
      /\ From(edges, n) = {}
      /\ pc = "wait" => Sent(n) >= 1

\* the coordinator has started on a graph built with a node on a cycle that
\* had an edge to a node on no cycle
C10_Witness ==
  /\ pc = "wait"
  /\ \E e \in edges0 : OnCycle(edges0, e[1]) /\ ~OnCycle(edges0, e[2])

--------------------------------------------------------------------------
(* C11: cycle resolution is idempotent.  A graph that was built without a *)
(* cycle leaves lines 135-154 with the very edges it was built with, and  *)
(* the graph lines 135-154 leave behind, whatever graph was built, is not *)
(* changed by the edge removal of lines 141-150 when it is applied again. *)
C11_Idempotent ==
  pc \notin {"build", "break", "panic"} =>
    /\ (\A n \in nodes : ~OnCycle(edges0, n)) => edges = edges0
    /\ RemoveFrom(nodes, edges) = edges

\* cycle resolution has removed edges from a graph and has left others
C11_Witness == pc = "run" /\ edges # edges0 /\ edges # {}

--------------------------------------------------------------------------
(* C12: when a descriptor lists a dependency name no node was created     *)
(* for, graph construction ends with an error that batch() returns, and   *)
(* the scheduler is not started: nothing is put on the work queue.        *)
Unresolved ==
  \E i \in nodes : \E dep \in pkgs[i + 1].deps :
    dep # name[i] /\ dep \notin DOMAIN byName

C12_UnresolvedIsError ==
  (pc # "build" /\ Unresolved) =>
    /\ pc = "error"
    /\ coord = "none" /\ dispatched = EmptyBag

--------------------------------------------------------------------------
(* C13: the graph the scheduler runs on never holds two nodes with one    *)
(* name: the names of its nodes are pairwise distinct, and byName has as  *)
(* many keys as the graph has nodes.                                      *)
C13_UniqueNodeNames ==
  Scheduling =>
    /\ \A i, j \in nodes : name[i] = name[j] => i = j
    /\ Cardinality(DOMAIN byName) = Cardinality(nodes)

--------------------------------------------------------------------------
(* C14: a dependency entry equal to the package's own name is dropped     *)
(* silently: no graph, as built or after cycle breaking, has an edge from *)
(* a node to itself, and an input whose entries all name a node ends in   *)
(* neither a panic nor an error when some package lists itself.           *)
SelfDep == \E i \in nodes : name[i] \in pkgs[i + 1].deps

C14_SelfDepDropped ==
  pc # "build" =>
    /\ \A e \in edges0 \cup edges : e[1] # e[2]
    /\ (SelfDep /\ ~Unresolved) => pc \notin {"panic", "error"}

\* the graph is built for a package that lists itself and another package
C14_Witness ==
  /\ pc = "run"
  /\ \E i \in nodes : name[i] \in pkgs[i + 1].deps /\ From(edges0, i) # {}

--------------------------------------------------------------------------
(* C15: the graph builder creates exactly one node per descriptor, named  *)
(* <package>-<version>: the graph has as many nodes as there are          *)
(* descriptors, their ids are pairwise distinct (the k-th descriptor gets *)
(* id k - 1), and each node carries the name of its own descriptor.       *)
C15_OneNodePerDescriptor ==
  pc # "build" =>
    /\ Cardinality(nodes) = Len(pkgs)
    /\ DOMAIN name = nodes
    /\ \A k \in 1..Len(pkgs) :
         /\ k - 1 \in nodes
         /\ name[k - 1] = FullName(pkgs[k].pkg, pkgs[k].version)

\* the graph has been built from four descriptors
C15_Witness == pc = "break" /\ Cardinality(nodes) = 4

--------------------------------------------------------------------------
(* C16: before cycle breaking the edges of the graph are exactly the      *)
(* pairs A -> B where the descriptor of node A lists the name of node B   *)
(* as a dependency and B is not A: each edge points from the dependent to *)
(* the dependency, and a name gives one edge however often it is listed.  *)
C16_EdgesAreDeps ==
  pc \notin {"build", "panic"} =>
    edges0 = { e \in nodes \X nodes :
                 /\ name[e[2]] \in pkgs[e[1] + 1].deps
                 /\ name[e[2]] # name[e[1]] }

--------------------------------------------------------------------------
(* C17: once a worker has returned an error the run is cancelled and      *)
(* comes to an end with that error.  As long as run() has not returned,   *)
(* some goroutine can take a step without another worker failing: no      *)
(* worker whose build went through stays blocked sending its result on    *)
(* done, nothing is left waiting.  And run() never returns with the       *)
(* summary instead of the error.                                          *)
StepWithoutFault == Next \/ CoordinatorCancelled \/ ReturnError

--------------------------------------------------------------------------
(* C18: the worker pool has 8 workers: in every state at most 8 builds    *)
(* are in progress, and every worker is in one place, holding one package *)
(* or none: the packages held and the workers that have returned never    *)
(* count more than 8 together.                                            *)
C18_PoolOfEight ==
  /\ BagCardinality(building) <= NumWorkers
  /\ BagCardinality(building) + exited <= NumWorkers

\* 8 builds are in progress while a ninth name waits on the work queue
C18_Witness == BagCardinality(building) = NumWorkers /\ work # << >>

--------------------------------------------------------------------------
(* C19: the work queue has room for as many names as the graph has nodes  *)
(* and never holds more, so no enqueue blocks: the initial loop finds     *)
(* room whenever it stands at a node without dependencies, and a tick     *)
(* that the coordinator can receive finds room for every candidate it     *)
(* enqueues.                                                              *)
C19_EnqueueNeverBlocks ==
  Running =>
    /\ workCap = Cardinality(nodes)
    /\ Len(work) <= workCap
    /\ (pc = "enqueue" /\ \E n \in todo : From(edges, n) = {})
         => Len(work) < workCap
    /\ (pc = "wait" /\ coord = "loop" /\ Cardinality(DOMAIN built) < numNodes)
         => \A pkg \in DOMAIN byName :
              (BagIn(pkg, building) /\ success(pkg)) =>
                Len(work) +
                  Cardinality({ c \in To(edges, byName[pkg]) :
                                  canBuild(Put(built, pkg, TRUE), c) }) <= workCap

--------------------------------------------------------------------------
(* C20: built has a single writer.  During a run only a step of the       *)
(* coordinator's loop changes built (the steps of the workers, which      *)
(* receive from work and return, leave it as it is), built does not       *)
(* change once the coordinator has left its loop, and the summary is      *)
(* computed from built only then.                                         *)
C20_SingleWriter ==
  [][ /\ built' # built => (pc = "wait" /\ coord = "loop")
      /\ coord = "exited" => built' = built
      /\ summary' # summary =>
           (coord = "exited" /\ built' = built /\ summary' = Summary(built)) ]_vars

\* the summary has been computed after the coordinator received the results
\* of two packages or more
C20_Witness ==
  /\ pc = "returned"
  /\ Cardinality(reported) >= 2
  /\ summary.total = Cardinality(DOMAIN built)

--------------------------------------------------------------------------
(* C21: cycle resolution yields, with the acyclic graph, the list of the  *)
(* cycle-broken packages: the packages batch() holds as cycle-broken once *)
(* lines 135-154 are over are exactly the nodes that lost outgoing edges  *)
(* (none for a graph built without a cycle).                              *)
C21_CycleBrokenList ==
  pc \in {"run", "enqueue", "wait", "returned", "fatal"} =>
    CycleBroken = { n \in nodes : From(edges, n) # From(edges0, n) }

--------------------------------------------------------------------------
(* C23: the names put on the work queue at the start of scheduler.run are *)
(* exactly the nodes without outgoing edges, each once, and all of them   *)
(* are on the queue before the coordinator receives any build result:     *)
(* while the initial loop runs no result has been received and only such  *)
(* nodes have been sent, and until the first result is received the nodes *)
(* sent are exactly these.                                                *)
NoDeps == { n \in nodes : From(edges, n) = {} }

C23_InitialReadySet ==
  /\ pc = "enqueue" =>
       /\ reported = {}
       /\ \A n \in nodes : Sent(n) <= (IF n \in NoDeps \ todo THEN 1 ELSE 0)
  /\ (pc = "wait" /\ reported = {}) => dispatched = SetToBag(NoDeps)

\* the coordinator starts, before any result, on a graph with two nodes
\* without dependencies and a node with one
C23_Witness ==
  /\ pc = "wait" /\ reported = {}
  /\ Cardinality(NoDeps) >= 2
  /\ NoDeps # nodes

--------------------------------------------------------------------------
(* C24: the failure cascade of one failed package visits each dependent   *)
(* once, also a dependent it reaches over several paths, and raises no    *)
(* error: whenever the coordinator can receive the result of a package    *)
(* whose build failed, the markFailed it then runs ends without the abort *)
(* of line 248 and has visited no node twice.                             *)
Visits(log, d) == Cardinality({ i \in DOMAIN log : log[i] = d })

C24_CascadeVisitsOnce ==
  (pc = "wait" /\ coord = "loop" /\ Cardinality(DOMAIN built) < numNodes) =>
    \A pkg \in DOMAIN byName :
      (BagIn(pkg, building) /\ ~success(pkg)) =>
        LET r == markFailed(Put(built, pkg, FALSE), byName[pkg])
        IN  /\ ~r.fatal
            /\ \A d \in nodes : Visits(r.log, d) <= 1

--------------------------------------------------------------------------
(* C25: an outcome recorded in built is final.  No step changes or drops  *)
(* an entry of built, and a package whose entry says failed is not put on *)
(* the work queue afterwards.                                             *)
C25_OutcomeIsFinal ==
  [][ /\ \A k \in DOMAIN built : k \in DOMAIN built' /\ built'[k] = built[k]
      /\ \A n \in nodes :
           (name[n] \in DOMAIN built /\ ~built[name[n]]) => Sent(n)' = Sent(n) ]_vars

--------------------------------------------------------------------------
(* C26: the error "could not break cycles" is unreachable: whatever graph *)
(* was built, once the outgoing edges of every node of every component    *)
(* the first topo.Sort reported are removed, the second topo.Sort finds   *)
(* no component to report, and batch() never returns that error.          *)
C26_SecondSortSucceeds ==
  /\ pc # "error"
  /\ pc = "break" => Unorderable(nodes, RemoveFrom(nodes, edges)) = {}

\* the second sort has passed a graph that was built with two cycles
\* through one node
C26_Witness ==
  /\ pc = "run"
  /\ \E c \in Unorderable(nodes, edges0) : Cardinality(c) = 3

--------------------------------------------------------------------------
(* C27: on an acyclic graph with unique node names markFailed never finds *)
(* a dependent that built records as succeeded: the run never ends in the *)
(* abort of line 248, and whenever the coordinator can receive the result *)
(* of a failed build, no package that depends on the failed one, directly *)
(* or over other packages, is recorded as succeeded.                      *)
C27_NoSucceededDependent ==
  /\ pc # "fatal"
  /\ (pc = "wait" /\ coord = "loop" /\ Cardinality(DOMAIN built) < numNodes) =>
       \A pkg \in DOMAIN byName :
         (BagIn(pkg, building) /\ ~success(pkg)) =>
           \A d \in Dependents(byName[pkg]) : ~Get(built, name[d])

\* a run has returned in which a failed build made markFailed mark a
\* package that depends on it over another package
C27_Witness ==
  /\ pc = "returned"
  /\ \E p, d \in nodes :
       /\ name[p] \in reported /\ ~success(name[p])
       /\ d \in Dependents(p)
       /\ p \notin From(edges, d)
       /\ name[d] \in DOMAIN built /\ ~built[name[d]]

--------------------------------------------------------------------------
(* C28: when the coordinator has left its loop because built holds an     *)
(* outcome for every node, the work queue is empty and no worker holds a  *)
(* package (none builds, none waits to send on done); until run() returns *)
(* some worker or run() itself can then take a step, so eg.Wait does not  *)
(* wait for ever.                                                         *)
C28_ExitLeavesNothing ==
  coord = "exited" =>
    /\ \A n \in nodes : name[n] \in DOMAIN built
    /\ work = << >>
    /\ building = EmptyBag
    /\ pc = "wait" => ENABLED Next

\* the coordinator has left its loop after a run of three nodes or more in
\* which a build failed, and workers are still to return
C28_Witness ==
  /\ coord = "exited" /\ pc = "wait"
  /\ exited < NumWorkers
  /\ Cardinality(nodes) >= 3
  /\ \E k \in DOMAIN built : ~built[k]

--------------------------------------------------------------------------
(* C29: the outcome of a run does not depend on the scheduling.  For the  *)
(* graph and the answers of the build action that a run starts with,      *)
(* every run that can go no further has returned, with built recording a  *)
(* package as succeeded exactly when the package and everything it        *)
(* depends on, directly or over other packages, builds with success, and  *)
(* with the summary counting these packages.                              *)
Expected(n) == success(name[n]) /\ Unaffected(n)

C29_OutcomeIndependent ==
  RunOver =>
    /\ pc = "returned"
    /\ \A n \in nodes : name[n] \in DOMAIN built /\ built[name[n]] = Expected(n)
    /\ summary.succeeded = Cardinality({ n \in nodes : Expected(n) })
    /\ summary.failed = Cardinality({ n \in nodes : ~Expected(n) })
    /\ summary.total = Cardinality(nodes)

--------------------------------------------------------------------------
(* C30: the cycle-breaking step changes nothing but the outgoing edges of *)
(* the nodes of cyclic components.  It leaves the nodes, their names and  *)
(* byName as they are, adds no edge, and leaves every node that is in no  *)
(* cyclic component with all of its outgoing edges, those into a cyclic   *)
(* component included.                                                    *)
C30_BreakFrame ==
  [][ pc = "break" =>
        /\ nodes' = nodes /\ name' = name /\ byName' = byName
        /\ edges' \subseteq edges
        /\ \A n \in nodes :
             ~OnCycle(edges, n) => From(edges', n) = From(edges, n) ]_vars

\* cycles have been broken in a graph where a node on no cycle has an edge
\* into a cyclic component, and the edge is still there
C30_Witness ==
  /\ pc = "run"
  /\ edges # edges0
  /\ \E e \in edges : ~OnCycle(edges0, e[1]) /\ OnCycle(edges0, e[2])

--------------------------------------------------------------------------
(* C31: on a graph without nodes scheduler.run comes to its end without   *)
(* building anything: nothing is sent on work and no worker takes a       *)
(* package, the run is never stuck and never aborted, and when it has     *)
(* returned the summary reads 0 succeeded, 0 failed, 0 total.             *)
C31_EmptyGraph ==
  pkgs = << >> =>
    /\ dispatched = EmptyBag /\ building = EmptyBag /\ work = << >>
    /\ pc \notin {"panic", "error", "fatal"}
    /\ Running => ENABLED Next
    /\ coord = "loop" => ENABLED CoordinatorExit
    /\ pc = "returned" =>
         summary = [succeeded |-> 0, failed |-> 0, total |-> 0]

\* the run on an empty pkgs/ has returned after all 8 workers did
C31_Witness ==
  pkgs = << >> /\ pc = "returned" /\ exited = NumWorkers /\ closed

--------------------------------------------------------------------------
(* C32: install1 moves the metadata of a package into roimg before its    *)
(* image, so that in every state, also that of a killed process and of    *)
(* the invocations after it, a package image in roimg has its metadata    *)
(* file next to it.                                                       *)
C32_MetaBeforeImage == "squashfs" \in roimg => "meta" \in roimg

\* the process was killed between the two renames: the metadata is in
\* roimg, the image still in the temporary directory
C32_Witness ==
  /\ crashed
  /\ roimg = {"meta"}
  /\ tmpDir.files = {"squashfs"}

--------------------------------------------------------------------------
(* C33: of the goroutines of one invocation that call install1 for the    *)
(* same package at most one downloads it and moves it into roimg: the     *)
(* image is moved into roimg at most once per invocation, and no          *)
(* goroutine is at work on an installation (between its Mkdir and its     *)
(* last rename) once another has moved the image.                         *)
C33_InstalledOnce ==
  /\ moved <= 1
  /\ \A c \in Callers :
       ipc[c] \in {"download", "hooks", "rename1", "rename2"} => moved = 0

==========================================================================
